---- MODULE Spec2Model ----
(***************************************************************************)
(* A model of the reflected-XSS scanner: the context analyzer              *)
(* (scanner/analyzer.py), the payload catalog (scanner/payloads.py), the   *)
(* scan engine (scanner/engine.py) run on a thread pool, and the reporter  *)
(* (scanner/reporter.py).                                                  *)
(*                                                                         *)
(* Text is a sequence of symbols.  A symbol is one character of the        *)
(* response ("<", ">", "=", a quote, a blank, ...), a run of letters       *)
(* ("a", "script", "href", ...), or a string the code treats as a whole:   *)
(* the probe "P", a payload template fragment, a marker token such as      *)
(* "alert(".                                                               *)
(***************************************************************************)
EXTENDS Integers, Sequences, FiniteSets, TLC

(***************************************************************************)
(* analyzer.py: InjectionContext                                           *)
(***************************************************************************)
InjectionContext ==
    { "HTML_TEXT", "ATTR_VALUE_DOUBLE_QUOTE", "ATTR_VALUE_SINGLE_QUOTE",
      "ATTR_VALUE_NO_QUOTE", "ATTR_NAME", "SCRIPT_BLOCK", "SCRIPT_STRING",
      "STYLE_BLOCK", "HTML_COMMENT", "JSON_VALUE", "URL_PARAM" }

\* The probe, as one symbol (engine.py _generate_probe: "XSS_PROBE_" and 12
\* characters of A-Z0-9; the analyzer only ever searches it as a whole).
PROBE == "P"

DQ == "\""
SQ == "'"
NL == "\n"

\* \s of the regular expressions, and str.strip()
IsSpace(c) == c \in {" ", NL}

\* Runs of letters that may name a tag or an attribute.
IsName(c) == c \in {"a", "script", "style", "href", "src", "action", "data"}

Positions(s) == 1..Len(s)

\* s[i..] starts with the symbols of pat
StartsAt(s, i, pat) ==
    /\ i >= 1
    /\ i + Len(pat) - 1 <= Len(s)
    /\ \A k \in 1..Len(pat) : s[i + k - 1] = pat[k]

\* x in s, for sequences of symbols
Contains(s, pat) == \E i \in 1..(Len(s) + 1) : StartsAt(s, i, pat)

\* No symbol of the set `bad` in s[i..j]
NoneIn(s, i, j, bad) == \A k \in i..j : s[k] \notin bad

\* str.lower() of a Content-Type value
Lower(ct) ==
    CASE ct = "APPLICATION/JSON" -> "application/json"
      [] ct = "Text/HTML" -> "text/html"
      [] OTHER -> ct

\* "json" in content_type
HasJson(ct) == ct \in {"application/json", "text/json", "application/ld+json"}

\* str.strip(): the first and last symbol that is not white space
FirstNonSpace(s) ==
    IF \E i \in Positions(s) : ~IsSpace(s[i])
    THEN CHOOSE i \in Positions(s) :
             ~IsSpace(s[i]) /\ \A k \in 1..(i - 1) : IsSpace(s[k])
    ELSE 0

LastNonSpace(s) ==
    IF \E i \in Positions(s) : ~IsSpace(s[i])
    THEN CHOOSE i \in Positions(s) :
             ~IsSpace(s[i]) /\ \A k \in (i + 1)..Len(s) : IsSpace(s[k])
    ELSE 0

strip(s) ==
    IF FirstNonSpace(s) = 0 THEN <<>>
    ELSE SubSeq(s, FirstNonSpace(s), LastNonSpace(s))

(***************************************************************************)
(* analyzer.py: the detectors.  html is the response text, probe the probe *)
(* symbol, content_type the lower-cased Content-Type.                      *)
(***************************************************************************)
_detect_json(html, probe, content_type) ==
    IF HasJson(content_type) THEN {"JSON_VALUE"}
    ELSE LET stripped == strip(html) IN
         IF /\ Len(stripped) > 0
            /\ stripped[1] \in {"{", "["}
            /\ stripped[Len(stripped)] \in {"}", "]"}
            /\ Contains(stripped, <<probe>>)
         THEN {"JSON_VALUE"}
         ELSE {}

\* A match of  <tag[^>]*>.*?probe.*?</tag>  starting at i (re.DOTALL): the
\* opening tag ends at the first ">" after its name, the probe follows, the
\* closing tag follows the probe.  The lazy match ends at the first closing
\* tag after the first probe after the opening tag's ">".
TagOpenEnd(s, i) ==
    IF \E g \in (i + 2)..Len(s) : s[g] = ">"
    THEN CHOOSE g \in (i + 2)..Len(s) :
             s[g] = ">" /\ NoneIn(s, i + 2, g - 1, {">"})
    ELSE 0

FirstAt(s, from, pat) ==
    IF \E j \in from..Len(s) : StartsAt(s, j, pat)
    THEN CHOOSE j \in from..Len(s) :
             StartsAt(s, j, pat) /\ \A k \in from..(j - 1) : ~StartsAt(s, k, pat)
    ELSE 0

\* The end (last position) of the block match that starts at i, 0 if none.
BlockMatchEnd(s, i, tag, probe) ==
    IF ~StartsAt(s, i, <<"<", tag>>) THEN 0
    ELSE LET g == TagOpenEnd(s, i) IN
         IF g = 0 THEN 0
         ELSE LET j == FirstAt(s, g + 1, <<probe>>) IN
              IF j = 0 THEN 0
              ELSE LET e == FirstAt(s, j + 1, <<"<", "/", tag, ">">>) IN
                   IF e = 0 THEN 0 ELSE e + 3

\* re.finditer: the matches from left to right, without overlap, as
\* <<start, end>> pairs.
RECURSIVE BlockMatches(_, _, _, _)
BlockMatches(s, from, tag, probe) ==
    IF \E i \in from..Len(s) : BlockMatchEnd(s, i, tag, probe) > 0
    THEN LET i == CHOOSE i \in from..Len(s) :
                      /\ BlockMatchEnd(s, i, tag, probe) > 0
                      /\ \A k \in from..(i - 1) : BlockMatchEnd(s, k, tag, probe) = 0
             e == BlockMatchEnd(s, i, tag, probe)
         IN  <<<<i, e>>>> \o BlockMatches(s, e + 1, tag, probe)
    ELSE <<>>

\* re.search(r'["\'].*?probe.*?["\']', script_content), "." not matching a
\* newline: a quote before the probe and a quote after it on one line.
QuotedOnLine(c, probe) ==
    \E q1 \in Positions(c) : \E j \in Positions(c) : \E q2 \in Positions(c) :
        /\ q1 < j /\ j < q2
        /\ c[q1] \in {DQ, SQ} /\ c[j] = probe /\ c[q2] \in {DQ, SQ}
        /\ NoneIn(c, q1 + 1, q2 - 1, {NL})

\* A variant of _detect_script_contexts that looks for the quoted probe in
\* the whole response, not in the matched script elements.
_detect_script_contextsAnywhere(html, probe) ==
    (IF BlockMatches(html, 1, "script", probe) # <<>> THEN {"SCRIPT_BLOCK"} ELSE {})
    \cup (IF QuotedOnLine(html, probe) THEN {"SCRIPT_STRING"} ELSE {})

_detect_script_contexts(html, probe) ==
    LET ms == BlockMatches(html, 1, "script", probe) IN
    IF ms = <<>> THEN {}
    ELSE {"SCRIPT_BLOCK"} \cup
         (IF \E m \in 1..Len(ms) :
                 QuotedOnLine(SubSeq(html, ms[m][1], ms[m][2]), probe)
          THEN {"SCRIPT_STRING"} ELSE {})

_detect_style_block(html, probe) ==
    IF BlockMatches(html, 1, "style", probe) # <<>> THEN {"STYLE_BLOCK"} ELSE {}

\* <!--.*?probe.*?-->
_detect_html_comment(html, probe) ==
    IF \E i \in Positions(html) : \E j \in Positions(html) : \E e \in Positions(html) :
           /\ StartsAt(html, i, <<"<", "!--">>)
           /\ i + 1 < j /\ html[j] = probe
           /\ j < e /\ StartsAt(html, e, <<"--", ">">>)
    THEN {"HTML_COMMENT"} ELSE {}

\* ="\s*[^"]*probe[^"]*"  and its single-quote twin
QuotedAttr(s, probe, q) ==
    \E i \in Positions(s) : \E j \in Positions(s) : \E e \in Positions(s) :
        /\ StartsAt(s, i, <<"=", q>>)
        /\ i + 1 < j /\ s[j] = probe /\ NoneIn(s, i + 2, j - 1, {q})
        /\ j < e /\ s[e] = q /\ NoneIn(s, j + 1, e - 1, {q})

\* =\s*probe(?:\s|[/>]|$)   ($: the end, or before a final newline)
UnquotedAttr(s, probe) ==
    \E i \in Positions(s) : \E j \in Positions(s) :
        /\ s[i] = "=" /\ i < j /\ s[j] = probe
        /\ \A k \in (i + 1)..(j - 1) : IsSpace(s[k])
        /\ \/ j = Len(s)
           \/ j < Len(s) /\ (IsSpace(s[j + 1]) \/ s[j + 1] \in {"/", ">"})

\* probe\s*=
AttrName(s, probe) ==
    \E j \in Positions(s) : \E i \in Positions(s) :
        /\ s[j] = probe /\ j < i /\ s[i] = "="
        /\ \A k \in (j + 1)..(i - 1) : IsSpace(s[k])

_detect_attribute_contexts(html, probe) ==
    (IF QuotedAttr(html, probe, DQ) THEN {"ATTR_VALUE_DOUBLE_QUOTE"} ELSE {})
    \cup (IF QuotedAttr(html, probe, SQ) THEN {"ATTR_VALUE_SINGLE_QUOTE"} ELSE {})
    \cup (IF UnquotedAttr(html, probe) THEN {"ATTR_VALUE_NO_QUOTE"} ELSE {})
    \cup (IF AttrName(html, probe) THEN {"ATTR_NAME"} ELSE {})

\* BeautifulSoup(html, 'html.parser').find(string=...): the probe is in a
\* string of the tree (text, comment, script or style content), that is,
\* not inside the markup of a tag.  A tag opens at "<" followed by a name
\* (or by "/" and a name) and ends at the next ">".
InTagMarkup(s, j) ==
    \E i \in 1..(j - 1) :
        /\ s[i] = "<"
        /\ \/ IsName(s[i + 1])
           \/ s[i + 1] = "/" /\ i + 2 <= Len(s) /\ IsName(s[i + 2])
        /\ \E g \in (j + 1)..Len(s) : s[g] = ">"
        /\ NoneIn(s, i + 1, j - 1, {">"})

SoupFindsString(s, probe) ==
    \E j \in Positions(s) : s[j] = probe /\ ~InTagMarkup(s, j)

\* >[^<]*probe[^<]*<   (the fallback when the parser raises)
TextPattern(s, probe) ==
    \E i \in Positions(s) : \E j \in Positions(s) : \E e \in Positions(s) :
        /\ s[i] = ">" /\ i < j /\ s[j] = probe /\ j < e /\ s[e] = "<"
        /\ NoneIn(s, i + 1, e - 1, {"<"})

\* A variant of _detect_text_node whose except clause does nothing.
_detect_text_nodeNoFallback(html, probe, parser_ok) ==
    IF parser_ok
    THEN IF SoupFindsString(html, probe) THEN {"HTML_TEXT"} ELSE {}
    ELSE {}

_detect_text_node(html, probe, parser_ok) ==
    IF parser_ok
    THEN IF SoupFindsString(html, probe) THEN {"HTML_TEXT"} ELSE {}
    ELSE IF TextPattern(html, probe) THEN {"HTML_TEXT"} ELSE {}

\* attr\s*=\s*["']?[^"'>\s]*probe[^"'>\s]*["']?   for href, src, action, data
UrlAttr(s, probe, attr) ==
    \E a \in Positions(s) : \E i \in Positions(s) : \E j \in Positions(s) :
        /\ s[a] = attr /\ a < i /\ s[i] = "=" /\ i < j /\ s[j] = probe
        /\ \A k \in (a + 1)..(i - 1) : IsSpace(s[k])
        /\ \E v \in (i + 1)..j :
              /\ \A k \in (i + 1)..(v - 1) : IsSpace(s[k])
              /\ \/ NoneIn(s, v, j - 1, {DQ, SQ, ">", " ", NL})
                 \/ /\ v < j /\ s[v] \in {DQ, SQ}
                    /\ NoneIn(s, v + 1, j - 1, {DQ, SQ, ">", " ", NL})

_detect_url_param(html, probe) ==
    IF \E attr \in {"href", "src", "action", "data"} : UrlAttr(html, probe, attr)
    THEN {"URL_PARAM"} ELSE {}

\* The seven detectors, in the order detect_all runs them (lines 64-70).
DetectorOrder ==
    <<"_detect_json", "_detect_script_contexts", "_detect_style_block",
      "_detect_html_comment", "_detect_attribute_contexts", "_detect_text_node",
      "_detect_url_param">>

Detectors == {DetectorOrder[i] : i \in 1..Len(DetectorOrder)}

\* What each detector returns for one response.
Detected(html, probe, content_type, parser_ok) ==
    [d \in Detectors |->
        CASE d = "_detect_json" -> _detect_json(html, probe, content_type)
          [] d = "_detect_script_contexts" -> _detect_script_contexts(html, probe)
          [] d = "_detect_style_block" -> _detect_style_block(html, probe)
          [] d = "_detect_html_comment" -> _detect_html_comment(html, probe)
          [] d = "_detect_attribute_contexts" -> _detect_attribute_contexts(html, probe)
          [] d = "_detect_text_node" -> _detect_text_node(html, probe, parser_ok)
          [] d = "_detect_url_param" -> _detect_url_param(html, probe)]

\* A variant of set.update that replaces the set by what the detector found.
updateAssign(contexts, found) == found

\* contexts.update(found)
update(contexts, found) == contexts \cup found

\* A variant that stops running detectors once one of them has found
\* something.
RECURSIVE RunDetectorsUntilHit(_, _)
RunDetectorsUntilHit(order, found) ==
    IF order = <<>> THEN {}
    ELSE LET contexts == RunDetectorsUntilHit(SubSeq(order, 1, Len(order) - 1), found) IN
         IF contexts # {} THEN contexts ELSE update(contexts, found[order[Len(order)]])

\* Lines 57 and 64-70: the set that the detectors, run in the given order,
\* leave in contexts; found is what each of them returns.
RECURSIVE RunDetectors(_, _)
RunDetectors(order, found) ==
    IF order = <<>> THEN {}
    ELSE update(RunDetectors(SubSeq(order, 1, Len(order) - 1), found),
                found[order[Len(order)]])

\* The contexts of detect_all, as the set it builds.
DetectedSet(html, probe, content_type, parser_ok) ==
    RunDetectors(DetectorOrder, Detected(html, probe, content_type, parser_ok))

(***************************************************************************)
(* payloads.py: PayloadGenerator.  A payload is the sequence of symbols of *)
(* its template with the trigger in place of {trigger}.  The double quote  *)
(* and the tokens the engine searches for are symbols of their own.        *)
(***************************************************************************)
\* The backtick, and alert followed by a backtick (a string of the module
\* cannot hold the character itself).
BT == "{backtick}"
ALERT_BT == "alert{backtick}"

JS_TRIGGERS ==
    << <<"alert(", "1", ")">>,
       <<"alert(", "document.domain", ")">>,
       <<ALERT_BT, "1", BT>>,
       <<"confirm(", "1", ")">>,
       <<"prompt(", "1", ")">>,
       <<"print(", ")">> >>

_html_text_payloads(trigger) ==
    << <<"<script>">> \o trigger \o <<"</script>">>,
       <<"<img src=x ", "onerror=">> \o trigger \o <<">">>,
       <<"<svg ", "onload=">> \o trigger \o <<">">>,
       <<"<iframe src=javascript:">> \o trigger \o <<">">>,
       <<"<body ", "onload=">> \o trigger \o <<">">>,
       <<"<details open ", "ontoggle=">> \o trigger \o <<">">>,
       <<"<marquee ", "onstart=">> \o trigger \o <<">">> >>

_double_quote_payloads(trigger) ==
    << <<DQ, "><script>">> \o trigger \o <<"</script>">>,
       <<DQ, " ", "onload=", DQ>> \o trigger \o <<DQ, " x=", DQ>>,
       <<DQ, " autofocus ", "onfocus=", DQ>> \o trigger \o <<DQ, " x=", DQ>>,
       <<DQ, " ", "onclick=", DQ>> \o trigger \o <<DQ, " x=", DQ>>,
       <<DQ, "><img src=x ", "onerror=">> \o trigger \o <<">">>,
       <<DQ, "><svg ", "onload=">> \o trigger \o <<">">>,
       <<DQ, " ", "onerror=", DQ>> \o trigger \o <<DQ, " src=", DQ, "x">> >>

_single_quote_payloads(trigger) ==
    << <<SQ, "><script>">> \o trigger \o <<"</script>">>,
       <<SQ, " ", "onload=", SQ>> \o trigger \o <<SQ, " x=", SQ>>,
       <<SQ, " autofocus ", "onfocus=", SQ>> \o trigger \o <<SQ, " x=", SQ>>,
       <<SQ, " ", "onclick=", SQ>> \o trigger \o <<SQ, " x=", SQ>>,
       <<SQ, "><img src=x ", "onerror=">> \o trigger \o <<">">>,
       <<SQ, "><svg ", "onload=">> \o trigger \o <<">">> >>

_unquoted_attr_payloads(trigger) ==
    << <<" ", "onload=">> \o trigger \o <<" x=">>,
       <<" ", "onclick=">> \o trigger \o <<" x=">>,
       <<" ", "onfocus=">> \o trigger \o <<" autofocus x=">>,
       <<"><script>">> \o trigger \o <<"</script>">>,
       <<"><img src=x ", "onerror=">> \o trigger \o <<">">> >>

_attr_name_payloads(trigger) ==
    << <<" ", "onload=">> \o trigger \o <<" ">>,
       <<" ", "onclick=">> \o trigger \o <<" ">>,
       <<" ", "onfocus=">> \o trigger \o <<" autofocus ">>,
       <<"><script>">> \o trigger \o <<"</script><x ">> >>

_script_block_payloads(trigger) ==
    << <<";">> \o trigger \o <<"//">>,
       <<";">> \o trigger \o <<"/*">>,
       <<"</script><script>">> \o trigger \o <<"</script><script>">>,
       <<SQ, ";">> \o trigger \o <<"//">>,
       <<DQ, ";">> \o trigger \o <<"//">>,
       <<"-">> \o trigger \o <<"//">> >>

_script_string_payloads(trigger) ==
    << <<SQ, ";">> \o trigger \o <<"//">>,
       <<DQ, ";">> \o trigger \o <<"//">>,
       <<SQ, "-">> \o trigger \o <<"-", SQ>>,
       <<DQ, "-">> \o trigger \o <<"-", DQ>>,
       <<"</script><script>">> \o trigger \o <<"</script><script>">> >>

_style_block_payloads(trigger) ==
    << <<"</style><script>">> \o trigger \o <<"</script><style>">>,
       <<"</style><img src=x ", "onerror=">> \o trigger \o <<"><style>">>,
       <<"} </style><script>">> \o trigger \o <<"</script><style>">> >>

_html_comment_payloads(trigger) ==
    << <<"--><script>">> \o trigger \o <<"</script><!--">>,
       <<"--><img src=x ", "onerror=">> \o trigger \o <<"><!--">>,
       <<"--><svg ", "onload=">> \o trigger \o <<"><!--">> >>

_json_payloads(trigger) ==
    << <<"\\", DQ, "><script>">> \o trigger \o <<"</script>">>,
       <<"\\", DQ, "}}<script>">> \o trigger \o <<"</script>">>,
       <<"\\u003cscript\\u003e">> \o trigger \o <<"\\u003c/script\\u003e">> >>

_url_param_payloads(trigger) ==
    << <<"javascript:">> \o trigger,
       <<"data:text/html,<script>">> \o trigger \o <<"</script>">>,
       <<"javascript:void(">> \o trigger \o <<")">>,
       <<DQ, " ", "onload=">> \o trigger \o <<" x=", DQ>>,
       <<SQ, " ", "onload=">> \o trigger \o <<" x=", SQ>> >>

\* generate: payload_map.get(context) and its fallback
traditional_payloads(context, trigger) ==
    CASE context = "HTML_TEXT" -> _html_text_payloads(trigger)
      [] context = "ATTR_VALUE_DOUBLE_QUOTE" -> _double_quote_payloads(trigger)
      [] context = "ATTR_VALUE_SINGLE_QUOTE" -> _single_quote_payloads(trigger)
      [] context = "ATTR_VALUE_NO_QUOTE" -> _unquoted_attr_payloads(trigger)
      [] context = "ATTR_NAME" -> _attr_name_payloads(trigger)
      [] context = "SCRIPT_BLOCK" -> _script_block_payloads(trigger)
      [] context = "SCRIPT_STRING" -> _script_string_payloads(trigger)
      [] context = "STYLE_BLOCK" -> _style_block_payloads(trigger)
      [] context = "HTML_COMMENT" -> _html_comment_payloads(trigger)
      [] context = "JSON_VALUE" -> _json_payloads(trigger)
      [] context = "URL_PARAM" -> _url_param_payloads(trigger)
      [] OTHER -> << <<"<script>">> \o trigger \o <<"</script>">> >>

\* list(dict.fromkeys(payloads)): the first occurrence of each entry, in order
RECURSIVE Unique(_)
Unique(l) ==
    IF l = <<>> THEN <<>>
    ELSE LET r == Unique(SubSeq(l, 1, Len(l) - 1)) IN
         IF \E k \in 1..Len(r) : r[k] = l[Len(l)] THEN r ELSE Append(r, l[Len(l)])

\* l[:n]
Take(l, n) == SubSeq(l, 1, IF Len(l) < n THEN Len(l) ELSE n)

\* An argument is passed with its Python type: Arg("InjectionContext", c) or
\* Arg("str", s).
Arg(type, v) == [type |-> type, v |-> v]

\* What a function returns: a list, or an exception ([kind |-> "raise"]).
List(l) == [kind |-> "list", list |-> l]

\* What gemini_model.generate_content ends in when it is called: an
\* exception, a response that is None or has no text, or a text, of which
\* lines are the lines the filter of lines 188-202 keeps.
AiRaises == [kind |-> "raise"]
AiEmpty == [kind |-> "empty"]
AiText(lines) == [kind |-> "text", lines |-> lines]

\* The number of times generate_ai_payloads calls generate_content: once,
\* unless the AI is off or building the prompt fails (context.value, which
\* only a member of InjectionContext has).
AiCalls(context, enabled) ==
    IF enabled /\ context.type = "InjectionContext" THEN 1 ELSE 0

\* A variant of generate_ai_payloads without the try/except of lines 92 and
\* 209-211: an exception leaves it.
generate_ai_payloadsNoCatch(param_name, context, html_snippet, enabled, reply) ==
    IF ~enabled THEN List(<<>>)
    ELSE IF context.type # "InjectionContext" THEN [kind |-> "raise"]
    ELSE IF reply.kind = "raise" THEN [kind |-> "raise"]
    ELSE IF reply.kind = "empty" THEN List(<<>>)
    ELSE List(Take(Unique(reply.lines), 5))

\* generate_ai_payloads(param_name, context, html_snippet): nothing unless
\* the AI is enabled; an exception (of the prompt's context.value, or of
\* the AI) is swallowed and gives nothing, and so does a response without
\* text; otherwise up to five distinct lines of the reply.
generate_ai_payloads(param_name, context, html_snippet, enabled, reply) ==
    IF ~enabled THEN List(<<>>)
    ELSE IF context.type # "InjectionContext" THEN List(<<>>)
    ELSE IF reply.kind = "raise" THEN List(<<>>)
    ELSE IF reply.kind = "empty" THEN List(<<>>)
    ELSE List(Take(Unique(reply.lines), 5))

\* generate(context, html_snippet) with the trigger get_trigger() drew: the
\* templates of the context, then generate_ai_payloads(context, html_snippet)
\* (its two positional arguments land in param_name and context).
generate(context, html_snippet, trigger, enabled, reply) ==
    LET ai_payloads == generate_ai_payloads(Arg("InjectionContext", context),
                                            Arg("str", html_snippet),
                                            Arg("str", <<>>), enabled, reply)
    IN  IF ai_payloads.kind = "raise" THEN ai_payloads
        ELSE List(traditional_payloads(context, trigger) \o ai_payloads.list)

(***************************************************************************)
(* Bounds of the model and the inputs of a run.                            *)
(***************************************************************************)
\* The largest worker count a run is started with.
MaxThreads == 2

\* The leading entries of JS_TRIGGERS that get_trigger draws from.
NumTriggers == 1

\* params of run(): parameter name -> baseline value, and the order of
\* list(params.keys()).
ParamList == <<"q", "id">>
ParamNames == {ParamList[i] : i \in 1..Len(ParamList)}
base_params == [p \in ParamNames |-> <<"1">>]

MAIN == "main"
Threads == ParamNames \cup {MAIN}

Methods == {"GET"}

(***************************************************************************)
(* The target server and the transport: what one request can end in.       *)
(* A response is [kind, ok, text, content_type, url]; ok is                *)
(* requests.Response.ok (status below 400), which is also the truth value  *)
(* of the response object.                                                 *)
(***************************************************************************)
None == [kind |-> "None"]
Timeout == [kind |-> "timeout"]
RequestException == [kind |-> "error"]
\* An exception that is no RequestException (a UnicodeError, say).
OtherException == [kind |-> "exception"]
\* The value that stands for an exception leaving a function.
Raised == [kind |-> "raise"]

Response(ok, text, content_type, url) ==
    [kind |-> "response", ok |-> ok, text |-> text,
     content_type |-> content_type, url |-> url]

\* response.url of a request: the query string is part of it for GET only.
RequestUrl(method, test_params) ==
    IF method = "GET" THEN [query |-> test_params] ELSE [query |-> <<>>]

\* Pages that echo the value v of the parameter under test.
PageText(v)     == <<"<", "a", ">">> \o v \o <<"<", "/", "a", ">">>
PageAttrName(v) == <<"<", "a", " ">> \o v \o <<"=", "a", ">">>
PageBareAttr(v) == <<"<", "a", " ">> \o v \o <<">">>
PageStatic      == <<"<", "a", ">", "<", "/", "a", ">">>

\* Where the target writes each parameter when it echoes it.
Sink(param, v) == IF param = ParamList[1] THEN PageAttrName(v) ELSE PageBareAttr(v)

\* What the reflection request can end in: no response, an error status, a
\* page without the probe, or the echo, served as HTML or as JSON.
ProbeOutcomes(method, param, test_params) ==
    LET url == RequestUrl(method, test_params)
        v   == test_params[param]
    IN  {Timeout, RequestException, OtherException}
        \cup {Response(FALSE, Sink(param, v), "text/html", url)}
        \cup {Response(TRUE, PageStatic, "text/html", url)}
        \cup {Response(TRUE, Sink(param, v), ct, url) : ct \in {"text/html", "APPLICATION/JSON"}}

\* str.replace('"', '&quot;')
QuotEncode(s) == [k \in 1..Len(s) |-> IF s[k] = DQ THEN "&quot;" ELSE s[k]]

\* What a payload request can end in: the page echoes the payload as it is,
\* with its double quotes encoded, or not at all; the page may hold an event
\* handler of its own.
PayloadOutcomes(method, param, test_params) ==
    LET url == RequestUrl(method, test_params)
        v   == test_params[param]
    IN  {Timeout, RequestException, OtherException}
        \cup {Response(FALSE, PageText(v), "text/html", url)}
        \cup {Response(TRUE, t, "text/html", url) :
                 t \in {PageText(v), PageText(QuotEncode(v)), PageStatic,
                        <<"<", "a", " ", "ONCLICK=", "a", ">">> \o QuotEncode(v)}}

(***************************************************************************)
(* engine.py: the functions of XSSEngine that a scan task calls.           *)
(***************************************************************************)
\* _generate_probe
_generate_probe == <<PROBE>>

\* A variant of the test that is `response is None`.
FalsyNone(response) == response.kind = "None"

\* `not response`: None, or a response whose status is 400 or above.
Falsy(response) == response.kind = "None" \/ ~response.ok

\* A variant of _send_request without the `except` clauses: every exception
\* leaves it.
_send_requestNoCatch(outcome) ==
    IF outcome.kind \in {"timeout", "error", "exception"} THEN Raised ELSE outcome

\* _send_request: the response, or None after a Timeout or any other
\* RequestException (both are logged); any other exception leaves it.
_send_request(outcome) ==
    IF outcome.kind \in {"timeout", "error"} THEN None
    ELSE IF outcome.kind = "exception" THEN Raised
    ELSE outcome

\* _extract_snippet / _extract_broader_context: context_chars symbols on
\* each side of the first probe.
_extract_snippet(html, probe, context_chars) ==
    LET probe_index == FirstAt(html, 1, probe) IN
    IF probe_index = 0 THEN <<>>
    ELSE LET start == IF probe_index - context_chars < 1 THEN 1
                      ELSE probe_index - context_chars
             end   == IF probe_index + Len(probe) - 1 + context_chars > Len(html)
                      THEN Len(html)
                      ELSE probe_index + Len(probe) - 1 + context_chars
         IN  SubSeq(html, start, end)

\* The orders in which a set can be listed.
Listings(S) ==
    {l \in [1..Cardinality(S) -> S] : \A a, b \in 1..Cardinality(S) : l[a] = l[b] => a = b}

\* A variant of detect_all that falls back to HTML_TEXT when no detector fires.
detect_allOrText(html, probe, content_type, parser_ok) ==
    IF ~Contains(html, probe) THEN {<<>>}
    ELSE IF DetectedSet(html, probe[1], Lower(content_type), parser_ok) = {}
    THEN {<<"HTML_TEXT">>}
    ELSE Listings(DetectedSet(html, probe[1], Lower(content_type), parser_ok))

\* A variant of detect_all without the quick check of lines 59-61.
detect_allNoQuickCheck(html, probe, content_type, parser_ok) ==
    Listings(DetectedSet(html, probe[1], Lower(content_type), parser_ok))

\* detect_all: nothing when the probe is absent; otherwise the contexts of
\* the seven detectors, each once, in the order the set lists them.
detect_all(html, probe, content_type, parser_ok) ==
    IF ~Contains(html, probe) THEN {<<>>}
    ELSE Listings(DetectedSet(html, probe[1], Lower(content_type), parser_ok))

\* A variant of _test_reflection that goes on with HTML_TEXT where the code
\* returns None for a response in which nothing was classified.
_test_reflectionDefault(probe, response, parser_ok) ==
    IF response.kind = "raise" THEN {Raised}
    ELSE IF Falsy(response) THEN {None}
    ELSE { [kind |-> "tuple", probe |-> probe,
            contexts |-> IF contexts = <<>> THEN <<"HTML_TEXT">> ELSE contexts,
            html_snippet |-> _extract_snippet(response.text, probe, 200),
            response_snippet |-> _extract_snippet(response.text, probe, 500)] :
           contexts \in detect_all(response.text, probe, response.content_type, parser_ok) }

\* _test_reflection after its request: None, or the tuple
\* (probe, response, contexts, html_snippet, response_snippet); one result
\* for each order detect_all can list the contexts in.
_test_reflection(probe, response, parser_ok) ==
    IF response.kind = "raise" THEN {Raised}
    ELSE IF Falsy(response) THEN {None}
    ELSE IF ~Contains(response.text, probe) THEN {None}
    ELSE { IF contexts = <<>> THEN None
           ELSE [kind |-> "tuple", probe |-> probe, contexts |-> contexts,
                 html_snippet |-> _extract_snippet(response.text, probe, 200),
                 response_snippet |-> _extract_snippet(response.text, probe, 500)] :
           contexts \in detect_all(response.text, probe, response.content_type, parser_ok) }

\* str.lower() of a symbol
SymLower(c) ==
    CASE c = "ONCLICK=" -> "onclick="
      [] c = "ALERT(" -> "alert("
      [] OTHER -> c

\* A variant without the copy: test_params is the shared mapping itself.
TestParamsAliased(base, param, value) ==
    [test_params |-> [base EXCEPT ![param] = value],
     base_params |-> [base EXCEPT ![param] = value]]

\* test_params = base_params.copy(); test_params[param] = value: the
\* mapping of the request, and the shared mapping afterwards.
TestParams(base, param, value) ==
    [test_params |-> [base EXCEPT ![param] = value], base_params |-> base]

\* _test_payload: the tokens searched for in the lower-cased response
triggers ==
    <<"alert(", ALERT_BT, "confirm(", "prompt(", "print(",
      "onerror=", "onload=", "onfocus=", "onclick=">>

\* A variant of _test_payload that asks for the payload itself in the body.
_test_payloadVerbatim(payload, response) ==
    IF response.kind = "raise" THEN Raised
    ELSE IF Falsy(response) THEN None
    ELSE LET response_lower == [k \in 1..Len(response.text) |-> SymLower(response.text[k])] IN
         IF /\ \E k \in 1..Len(triggers) : Contains(response_lower, <<SymLower(triggers[k])>>)
            /\ Contains(response.text, payload)
         THEN [kind |-> "url", url |-> response.url]
         ELSE None

\* A variant of _test_payload that searches the response as it is, without
\* lower-casing it.
_test_payloadNoFold(payload, response) ==
    IF response.kind = "raise" THEN Raised
    ELSE IF Falsy(response) THEN None
    ELSE IF /\ \E k \in 1..Len(triggers) : Contains(response.text, <<triggers[k]>>)
            /\ \/ Contains(response.text, payload)
               \/ ~Contains(response.text, QuotEncode(payload))
         THEN [kind |-> "url", url |-> response.url]
         ELSE None

\* _test_payload after its request: the exploit URL, or None.
_test_payload(payload, response) ==
    IF response.kind = "raise" THEN Raised
    ELSE IF Falsy(response) THEN None
    ELSE LET response_lower == [k \in 1..Len(response.text) |-> SymLower(response.text[k])] IN
         IF /\ \E k \in 1..Len(triggers) : Contains(response_lower, <<SymLower(triggers[k])>>)
            /\ \/ Contains(response.text, payload)
               \/ ~Contains(response.text, QuotEncode(payload))
         THEN [kind |-> "url", url |-> response.url]
         ELSE None

\* The keyword arguments of the call of PayloadGenerator.generate in
\* scan_parameter, and the parameters generate declares.
CallKeywords == {"context", "param_name", "html_snippet", "response_snippet"}
GenerateParams == {"context", "html_snippet"}

\* A call binds when every keyword names a parameter and the parameter
\* without a default (context) is given; otherwise it raises TypeError.
Binds(keywords) == keywords \subseteq GenerateParams /\ "context" \in keywords

(***************************************************************************)
(* The state of a run.                                                     *)
(***************************************************************************)
VARIABLES
    cfg,             \* the target: [method, threads]
    gemini_enabled,  \* PayloadGenerator.gemini_enabled
    pc,              \* where each thread is: the main thread and one task per parameter
    frame,           \* the local variables of each scan_parameter call
    ret,             \* the value each finished task returned (-1: none)
    queue,           \* the executor's work queue
    print_lock,      \* the thread that holds XSSEngine.print_lock
    findings_count,  \* XSSEngine.findings_count
    findings,        \* HTMLReporter.findings
    main,            \* run()'s locals: [next, collected, completed], and
                     \* pending: the tasks not yet started when an interrupt came
    sent,            \* per task, the payload requests sent: [context, payload, hit]
    refl,            \* per task, what the reflection request met: [state, contexts]
    fault,           \* per task, how its last request failed, if it did
    params,          \* the mapping passed to run(), shared by the tasks
    req,             \* per task, the parameters its last request carried
    call             \* a function called on its own: [fn, its arguments, result]

vars == <<cfg, gemini_enabled, pc, frame, ret, queue, print_lock, findings_count,
          findings, main, sent, refl, fault, params, req, call>>

NoThread == "none"

EmptyFrame ==
    [contexts |-> <<>>, html_snippet |-> <<>>, ci |-> 0, payloads |-> <<>>, pi |-> 0,
     vulnerabilities |-> 0, exploit_url |-> None, tmp |-> 0]

\* No function is called on its own during a run.
NoCall == [fn |-> "none"]

\* The state of the scanner after construction.
InitRun ==
    /\ cfg \in [method : Methods, threads : 1..MaxThreads]
    /\ gemini_enabled = FALSE
    /\ pc = [t \in Threads |-> IF t = MAIN THEN "run" ELSE "unsubmitted"]
    /\ frame = [p \in ParamNames |-> EmptyFrame]
    /\ ret = [p \in ParamNames |-> -1]
    /\ queue = <<>>
    /\ print_lock = NoThread
    /\ findings_count = 0
    /\ findings = <<>>
    /\ main = [next |-> 1, collected |-> {}, completed |-> 0, pending |-> {}]
    /\ sent = [p \in ParamNames |-> <<>>]
    /\ refl = [p \in ParamNames |-> [state |-> "unset", contexts |-> {}]]
    /\ fault = [p \in ParamNames |-> "none"]
    /\ params = base_params
    /\ req = [p \in ParamNames |-> base_params]

Init == InitRun /\ call = NoCall

\* The tasks a worker thread is running.
Running == {p \in ParamNames : pc[p] \notin {"unsubmitted", "queued", "done", "raised"}}

(***************************************************************************)
(* _log: `with self.print_lock:` around one print.  LogEnter takes the     *)
(* lock; the step that follows a "..._log" position releases it.  _log     *)
(* calls that follow one another with no other shared access in between    *)
(* are one critical section.                                               *)
(***************************************************************************)
LogPositions ==
    [intro_wait |-> "intro_log", nr_wait |-> "nr_log", ctx_wait |-> "ctx_log",
     pf_wait |-> "pf_log", url_wait |-> "url_log", none_wait |-> "none_log",
     err_wait |-> "err_log", sum_wait |-> "sum_log"]

LogEnter(t) ==
    /\ pc[t] \in DOMAIN LogPositions
    /\ print_lock = NoThread
    /\ print_lock' = t
    /\ pc' = [pc EXCEPT ![t] = LogPositions[pc[t]]]
    /\ UNCHANGED <<call, cfg, gemini_enabled, frame, ret, queue, findings_count, findings,
                   main, sent, refl, fault, params, req>>

(***************************************************************************)
(* scan_parameter, one step per access to what the tasks share (the lock,  *)
(* the found-count, the output, the reporter) and per request.             *)
(***************************************************************************)
\* What the AI collaborator answers with, when it is asked.
AiReply == AiText(<< <<"<svg ", "onload=", "alert(", "1", ")", ">">> >>)

\* The loop control of scan_parameter, on the locals f of a task:
\* the next payload of the list, the next context, the end of the function.
Finish(f) ==
    IF f.vulnerabilities = 0 THEN [pc |-> "none_wait", f |-> f]
    ELSE [pc |-> "done", f |-> f]

NextContext(f) ==
    IF f.ci < Len(f.contexts)
    THEN [pc |-> "gen", f |-> [f EXCEPT !.ci = @ + 1, !.payloads = <<>>, !.pi = 0]]
    ELSE Finish(f)

\* A variant of the loop over the payloads that steps over every other entry.
NextPayloadSkip(f) ==
    IF f.pi + 1 < Len(f.payloads)
    THEN [pc |-> "test", f |-> [f EXCEPT !.pi = @ + 2]]
    ELSE NextContext(f)

NextPayload(f) ==
    IF f.pi < Len(f.payloads)
    THEN [pc |-> "test", f |-> [f EXCEPT !.pi = @ + 1]]
    ELSE NextContext(f)

\* A variant without the `break`: the loop over the payloads goes on.
BreakContinue(f) == NextPayload(f)

\* `break` after a finding: on to the next context.
Break(f) == NextContext(f)

\* Task p moves on as `st` says; a return stores the value; a return and an
\* exception drop the locals.  flt is how the task's last payload request
\* failed, kept while the task runs and after an exception.
Goto(p, st, flt) ==
    /\ pc' = [pc EXCEPT ![p] = st.pc]
    /\ frame' = [frame EXCEPT ![p] = IF st.pc \in {"done", "raised"} THEN EmptyFrame
                                      ELSE st.f]
    /\ ret' = [ret EXCEPT ![p] = IF st.pc = "done" THEN st.f.vulnerabilities ELSE @]
    /\ fault' = [fault EXCEPT ![p] = IF st.pc = "done" THEN "none" ELSE flt]

\* A variant of the pool that starts a queued task whatever the number of
\* tasks running.
StartNoLimit(p) ==
    /\ pc[p] = "queued"
    /\ queue # <<>> /\ Head(queue) = p
    /\ queue' = Tail(queue)
    /\ pc' = [pc EXCEPT ![p] = "intro_wait"]
    /\ UNCHANGED <<call, cfg, gemini_enabled, frame, ret, print_lock, findings_count,
                   findings, main, sent, refl, fault, params, req>>

\* A worker thread takes the task at the head of the queue.
Start(p) ==
    /\ pc[p] = "queued"
    /\ queue # <<>> /\ Head(queue) = p
    /\ Cardinality(Running) < cfg.threads
    /\ queue' = Tail(queue)
    /\ pc' = [pc EXCEPT ![p] = "intro_wait"]
    /\ UNCHANGED <<call, cfg, gemini_enabled, frame, ret, print_lock, findings_count,
                   findings, main, sent, refl, fault, params, req>>

\* What the reflection request met, whatever the code makes of it: an
\* exception that is no RequestException, no response, a page without the
\* probe, a page where no detector fires, or the probe in the contexts
\* DetectedSet names (on an error page or not).
Met(probe, outcome, parser_ok) ==
    IF outcome.kind = "exception" THEN [state |-> "exception", contexts |-> {}]
    ELSE IF outcome.kind # "response" THEN [state |-> "no_response", contexts |-> {}]
    ELSE IF ~Contains(outcome.text, probe) THEN [state |-> "no_probe", contexts |-> {}]
    ELSE LET contexts == DetectedSet(outcome.text, probe[1], Lower(outcome.content_type),
                                     parser_ok)
         IN  IF contexts = {} THEN [state |-> "no_context", contexts |-> {}]
             ELSE [state |-> IF outcome.ok THEN "reflected" ELSE "http_error",
                   contexts |-> contexts]

\* How a request failed: with an exception _send_request turns into None,
\* with another exception, or not at all.
Fault(outcome) ==
    IF outcome.kind \in {"timeout", "error"} THEN "transport"
    ELSE IF outcome.kind = "exception" THEN "other"
    ELSE "none"

\* Lines 223-234: after the three opening lines are logged, _test_reflection.
Reflect(p) ==
    /\ pc[p] = "intro_log"
    /\ print_lock' = NoThread
    /\ LET probe == _generate_probe
           built == TestParams(params, p, probe)
           test_params == built.test_params
       IN  /\ params' = built.base_params
           /\ req' = [req EXCEPT ![p] = test_params]
           /\ \E outcome \in ProbeOutcomes(cfg.method, p, test_params) :
              \E parser_ok \in BOOLEAN :
              \E reflection_result \in
                     _test_reflection(probe, _send_request(outcome), parser_ok) :
                 /\ refl' = [refl EXCEPT ![p] = Met(probe, outcome, parser_ok)]
                 /\ IF reflection_result.kind = "raise"
                    THEN /\ pc' = [pc EXCEPT ![p] = "raised"]
                         /\ frame' = frame
                    ELSE IF reflection_result.kind = "None"
                    THEN /\ pc' = [pc EXCEPT ![p] = "nr_wait"]
                         /\ frame' = frame
                    ELSE /\ pc' = [pc EXCEPT ![p] = "ctx_wait"]
                         /\ frame' = [frame EXCEPT ![p] =
                                [EmptyFrame EXCEPT
                                    !.contexts = reflection_result.contexts,
                                    !.html_snippet = reflection_result.html_snippet]]
    /\ UNCHANGED <<call, cfg, gemini_enabled, ret, queue, findings_count, findings, main, sent,
                   fault>>

\* Lines 230-232: "Not reflected or no contexts detected" is logged; return 0.
NrLogExit(p) ==
    /\ pc[p] = "nr_log"
    /\ print_lock' = NoThread
    /\ Goto(p, [pc |-> "done", f |-> [EmptyFrame EXCEPT !.vulnerabilities = 0]], fault[p])
    /\ UNCHANGED <<call, cfg, gemini_enabled, queue, findings_count, findings, main, sent,
                   refl, params, req>>

\* Lines 236-249: the contexts are logged; vulnerabilities = 0; the loop
\* over the contexts starts.
CtxLogExit(p) ==
    /\ pc[p] = "ctx_log"
    /\ print_lock' = NoThread
    /\ pc' = [pc EXCEPT ![p] = "gen"]
    /\ frame' = [frame EXCEPT ![p].vulnerabilities = 0, ![p].ci = 1]
    /\ UNCHANGED <<call, cfg, gemini_enabled, ret, queue, findings_count, findings, main,
                   sent, refl, fault, params, req>>

\* Lines 251-256: PayloadGenerator.generate is called with the keyword
\* arguments `keywords`.  A call that does not bind raises TypeError out of
\* scan_parameter.  (Lines 259-263 log a count only for more than 7
\* payloads.)
GenerateDraw(p, keywords, n) ==
    /\ pc[p] = "gen"
    /\ IF Binds(keywords)
       THEN \E k \in 1..n :
              LET f == frame[p]
                  payloads == generate(f.contexts[f.ci],
                                       IF "html_snippet" \in keywords
                                       THEN f.html_snippet ELSE <<>>,
                                       JS_TRIGGERS[k], gemini_enabled, AiReply)
              IN  IF payloads.kind = "raise"
                  THEN Goto(p, [pc |-> "raised", f |-> f], fault[p])
                  ELSE IF payloads.list = <<>>
                  THEN Goto(p, NextContext(f), fault[p])
                  ELSE Goto(p, [pc |-> "test",
                                f |-> [f EXCEPT !.payloads = payloads.list, !.pi = 1]],
                            fault[p])
       ELSE Goto(p, [pc |-> "raised", f |-> frame[p]], fault[p])
    /\ UNCHANGED <<call, cfg, gemini_enabled, queue, print_lock, findings_count, findings,
                   main, sent, refl, params, req>>

\* The step with get_trigger drawing from the leading NumTriggers entries.
GenerateStep(p, keywords) == GenerateDraw(p, keywords, NumTriggers)

\* Lines 265-270: _test_payload for the current payload.  A transport
\* failure is logged by _send_request before None comes back; another
\* exception leaves scan_parameter; a hit counts (vulnerabilities += 1) and
\* reads findings_count for the += of line 270.
TestPayload(p) ==
    /\ pc[p] = "test"
    /\ LET f == frame[p]
           payload == f.payloads[f.pi]
           built == TestParams(params, p, payload)
           test_params == built.test_params
       IN  /\ params' = built.base_params
           /\ req' = [req EXCEPT ![p] = test_params]
           /\ \E outcome \in PayloadOutcomes(cfg.method, p, test_params) :
                 LET exploit_url == _test_payload(payload, _send_request(outcome))
                     st == IF exploit_url.kind = "raise"
                           THEN [pc |-> "raised", f |-> f]
                           ELSE IF outcome.kind \in {"timeout", "error"}
                           THEN [pc |-> "pf_wait", f |-> f]
                           ELSE IF exploit_url.kind = "None"
                           THEN NextPayload(f)
                           ELSE [pc |-> "store",
                                 f |-> [f EXCEPT !.vulnerabilities = @ + 1,
                                                 !.exploit_url = exploit_url,
                                                 !.tmp = findings_count]]
                 IN
                 /\ Goto(p, st, Fault(outcome))
                 /\ sent' = [sent EXCEPT ![p] =
                                Append(@, [context |-> f.contexts[f.ci],
                                           payload |-> payload,
                                           hit |-> exploit_url.kind = "url"])]
    /\ UNCHANGED <<call, cfg, gemini_enabled, queue, print_lock, findings_count, findings,
                   main, refl>>

\* A variant that sends the payload again after a transport failure.
PfLogExitRetry(p) ==
    /\ pc[p] = "pf_log"
    /\ print_lock' = NoThread
    /\ Goto(p, [pc |-> "test", f |-> frame[p]], fault[p])
    /\ UNCHANGED <<call, cfg, gemini_enabled, queue, findings_count, findings, main, sent,
                   refl, params, req>>

\* Lines 141-144, 196, 268: the failure is logged, None is returned up to
\* the loop, which goes on.
PfLogExit(p) ==
    /\ pc[p] = "pf_log"
    /\ print_lock' = NoThread
    /\ Goto(p, NextPayload(frame[p]), fault[p])
    /\ UNCHANGED <<call, cfg, gemini_enabled, queue, findings_count, findings, main, sent,
                   refl, params, req>>

\* Lines 270-273: the store of self.findings_count += 1; Colors.print_finding
\* prints the finding.
CountStore(p) ==
    /\ pc[p] = "store"
    /\ findings_count' = frame[p].tmp + 1
    /\ pc' = [pc EXCEPT ![p] = "url_wait"]
    /\ UNCHANGED <<call, cfg, gemini_enabled, frame, ret, queue, print_lock, findings, main,
                   sent, refl, fault, params, req>>

\* A variant of add_finding that keeps the finding for a later hand-over
\* instead of appending it.
add_findingLater(fs, param, payload, context, url) == fs

\* A variant of add_finding that appends the finding twice.
add_findingTwice(fs, param, payload, context, url) ==
    LET finding == [param |-> param, payload |-> payload, context |-> context, url |-> url]
    IN  Append(Append(fs, finding), finding)

\* reporter.py add_finding (the timestamp is left out)
add_finding(fs, param, payload, context, url) ==
    Append(fs, [param |-> param, payload |-> payload, context |-> context, url |-> url])

\* Lines 274-286: the URL is logged, the finding is added, break.
UrlLogExit(p) ==
    /\ pc[p] = "url_log"
    /\ print_lock' = NoThread
    /\ LET f == frame[p] IN
       /\ findings' = add_finding(findings, p, f.payloads[f.pi], f.contexts[f.ci],
                                  f.exploit_url.url)
       /\ Goto(p, Break(f), fault[p])
    /\ UNCHANGED <<call, cfg, gemini_enabled, queue, findings_count, main, sent, refl, params, req>>

\* Lines 288-291: "No working payloads found" is logged; return vulnerabilities.
NoneLogExit(p) ==
    /\ pc[p] = "none_log"
    /\ print_lock' = NoThread
    /\ Goto(p, [pc |-> "done", f |-> frame[p]], fault[p])
    /\ UNCHANGED <<call, cfg, gemini_enabled, queue, findings_count, findings, main, sent,
                   refl, params, req>>

(***************************************************************************)
(* main.py configure_gemini and engine.py run(), on the main thread.       *)
(***************************************************************************)
\* payloads.py initialize_gemini succeeded before the scan.
ConfigureGemini ==
    /\ pc[MAIN] = "run"
    /\ ~gemini_enabled
    /\ gemini_enabled' = TRUE
    /\ UNCHANGED <<call, cfg, pc, frame, ret, queue, print_lock, findings_count, findings,
                   main, sent, refl, fault, params, req>>

\* Lines 301-308: the heading is logged (no task exists yet).
RunBegin ==
    /\ pc[MAIN] = "run"
    /\ print_lock = NoThread
    /\ pc' = [pc EXCEPT ![MAIN] = "submit"]
    /\ UNCHANGED <<call, cfg, gemini_enabled, frame, ret, queue, print_lock, findings_count,
                   findings, main, sent, refl, fault, params, req>>

\* Lines 312-315: executor.submit(self.scan_parameter, param, params), in
\* the order of param_names.
Submit ==
    /\ pc[MAIN] = "submit"
    /\ LET p == ParamList[main.next] IN
       /\ queue' = Append(queue, p)
       /\ pc' = [pc EXCEPT ![p] = "queued",
                           ![MAIN] = IF main.next = Len(ParamList) THEN "collect"
                                     ELSE "submit"]
    /\ main' = [main EXCEPT !.next = @ + 1]
    /\ UNCHANGED <<call, cfg, gemini_enabled, frame, ret, print_lock, findings_count,
                   findings, sent, refl, fault, params, req>>

\* A variant of the collecting loop without try/except: the exception that
\* future.result() re-raises leaves run().
CollectUncaught(p) ==
    /\ pc[MAIN] = "collect"
    /\ p \notin main.collected
    /\ pc[p] \in {"done", "raised"}
    /\ IF pc[p] = "raised"
       THEN /\ pc' = [pc EXCEPT ![MAIN] = "aborted"]
            /\ main' = [main EXCEPT !.collected = @ \cup {p}]
       ELSE /\ pc' = [pc EXCEPT ![MAIN] = "progress"]
            /\ main' = [main EXCEPT !.collected = @ \cup {p}, !.completed = @ + 1]
    /\ UNCHANGED <<call, cfg, gemini_enabled, frame, ret, queue, print_lock, findings_count,
                   findings, sent, refl, fault, params, req>>

\* Lines 318-325: as_completed yields a finished future; future.result()
\* returns or re-raises; an exception is logged; completed += 1.
Collect(p) ==
    /\ pc[MAIN] = "collect"
    /\ p \notin main.collected
    /\ pc[p] \in {"done", "raised"}
    /\ IF pc[p] = "raised"
       THEN /\ pc' = [pc EXCEPT ![MAIN] = "err_wait"]
            /\ main' = [main EXCEPT !.collected = @ \cup {p}]
       ELSE /\ pc' = [pc EXCEPT ![MAIN] = "progress"]
            /\ main' = [main EXCEPT !.collected = @ \cup {p}, !.completed = @ + 1]
    /\ UNCHANGED <<call, cfg, gemini_enabled, frame, ret, queue, print_lock, findings_count,
                   findings, sent, refl, fault, params, req>>

\* A variant of the except clause that leaves the loop body, as a
\* `continue` after the log line would: completed stays as it is.
ErrLogExitNoCount ==
    /\ pc[MAIN] = "err_log"
    /\ print_lock' = NoThread
    /\ pc' = [pc EXCEPT ![MAIN] = "progress"]
    /\ UNCHANGED <<call, cfg, gemini_enabled, frame, ret, queue, findings_count, findings,
                   main, sent, refl, fault, params, req>>

\* Lines 322-325: the error is logged; completed += 1.
ErrLogExit ==
    /\ pc[MAIN] = "err_log"
    /\ print_lock' = NoThread
    /\ pc' = [pc EXCEPT ![MAIN] = "progress"]
    /\ main' = [main EXCEPT !.completed = @ + 1]
    /\ UNCHANGED <<call, cfg, gemini_enabled, frame, ret, queue, findings_count, findings,
                   sent, refl, fault, params, req>>

\* Line 326: progress.update(completed) has printed; the loop goes on, or
\* ends and the executor is shut down.
ProgressEnd ==
    /\ pc[MAIN] = "progress"
    /\ pc' = [pc EXCEPT ![MAIN] = IF main.completed = Len(ParamList) THEN "sum_wait"
                                  ELSE "collect"]
    /\ UNCHANGED <<call, cfg, gemini_enabled, frame, ret, queue, print_lock, findings_count,
                   findings, main, sent, refl, fault, params, req>>

\* Lines 329-332: the summary is logged; run() returns.
SummaryExit ==
    /\ pc[MAIN] = "sum_log"
    /\ print_lock' = NoThread
    /\ pc' = [pc EXCEPT ![MAIN] = "done"]
    /\ UNCHANGED <<call, cfg, gemini_enabled, frame, ret, queue, findings_count, findings,
                   main, sent, refl, fault, params, req>>

(***************************************************************************)
(* main.py around run(): the report, and a KeyboardInterrupt.              *)
(***************************************************************************)
\* main.py 290-301: run() has returned; reporter.save() writes the report.
ReportSave ==
    /\ pc[MAIN] = "done"
    /\ pc' = [pc EXCEPT ![MAIN] = "saved"]
    /\ UNCHANGED <<call, cfg, gemini_enabled, frame, ret, queue, print_lock, findings_count,
                   findings, main, sent, refl, fault, params, req>>

\* A KeyboardInterrupt reaches the main thread inside the `with
\* ThreadPoolExecutor` block of run(): a `with self.print_lock` it is in
\* releases the lock, and the executor's __exit__ calls shutdown(wait=True).
Interrupt ==
    /\ pc[MAIN] \in {"submit", "collect", "err_wait", "err_log", "progress"}
    /\ pc' = [pc EXCEPT ![MAIN] = "shutdown"]
    /\ print_lock' = IF print_lock = MAIN THEN NoThread ELSE print_lock
    /\ main' = [main EXCEPT !.pending = {p \in ParamNames : pc[p] = "queued"}]
    /\ UNCHANGED <<call, cfg, gemini_enabled, frame, ret, queue, findings_count, findings,
                   sent, refl, fault, params, req>>

\* shutdown(wait=True) returns when every submitted task has ended; the
\* KeyboardInterrupt leaves run() and main(), and the handler of main.py
\* 329-332 prints and exits.  reporter.save() is not reached.
ShutdownEnd ==
    /\ pc[MAIN] = "shutdown"
    /\ \A p \in ParamNames : pc[p] \in {"unsubmitted", "done", "raised"}
    /\ pc' = [pc EXCEPT ![MAIN] = "interrupted"]
    /\ UNCHANGED <<call, cfg, gemini_enabled, frame, ret, queue, print_lock, findings_count,
                   findings, main, sent, refl, fault, params, req>>

(***************************************************************************)
(* Spec: the program.  The call of generate passes the keywords of lines   *)
(* 251-256.                                                                *)
(***************************************************************************)
Next ==
    \/ RunBegin
    \/ Submit
    \/ \E t \in Threads : LogEnter(t)
    \/ \E p \in ParamNames : Start(p)
    \/ \E p \in ParamNames : Reflect(p)
    \/ \E p \in ParamNames : NrLogExit(p)
    \/ \E p \in ParamNames : CtxLogExit(p)
    \/ \E p \in ParamNames : GenerateStep(p, CallKeywords)
    \/ \E p \in ParamNames : Collect(p)
    \/ ErrLogExit
    \/ ProgressEnd
    \/ SummaryExit

Spec == Init /\ [][Next]_vars

(***************************************************************************)
(* SpecFair: the program with threads that keep running: while some thread *)
(* can take a step (a request returns or times out, the lock is free for a *)
(* waiting thread, a worker is idle and a task queued), a step is taken.    *)
(***************************************************************************)
SpecFair == Spec /\ WF_vars(Next)

(***************************************************************************)
(* SpecScan: the program with the call of generate bound, that is, with    *)
(* only the keywords generate declares.  The loop over the payloads        *)
(* (lines 257-291) runs in no other case.                                  *)
(***************************************************************************)
NextScan ==
    \/ RunBegin
    \/ Submit
    \/ \E t \in Threads : LogEnter(t)
    \/ \E p \in ParamNames : Start(p)
    \/ \E p \in ParamNames : Reflect(p)
    \/ \E p \in ParamNames : NrLogExit(p)
    \/ \E p \in ParamNames : CtxLogExit(p)
    \/ \E p \in ParamNames : GenerateStep(p, CallKeywords \cap GenerateParams)
    \/ \E p \in ParamNames : TestPayload(p)
    \/ \E p \in ParamNames : PfLogExit(p)
    \/ \E p \in ParamNames : CountStore(p)
    \/ \E p \in ParamNames : UrlLogExit(p)
    \/ \E p \in ParamNames : NoneLogExit(p)
    \/ \E p \in ParamNames : Collect(p)
    \/ ErrLogExit
    \/ ProgressEnd
    \/ SummaryExit

SpecScan == Init /\ [][NextScan]_vars

(***************************************************************************)
(* SpecInterrupt: the program, run from main.py, with a KeyboardInterrupt  *)
(* that may come during run().                                             *)
(***************************************************************************)
NextInterrupt ==
    \/ Next
    \/ ReportSave
    \/ Interrupt
    \/ ShutdownEnd

SpecInterrupt == Init /\ [][NextInterrupt]_vars

(***************************************************************************)
(* SpecDraw: SpecScan with one worker and with get_trigger drawing from    *)
(* one more entry of JS_TRIGGERS.                                          *)
(***************************************************************************)
DrawnTriggers == NumTriggers + 1

InitDraw == Init /\ cfg.threads = 1

NextDraw ==
    \/ RunBegin
    \/ Submit
    \/ \E t \in Threads : LogEnter(t)
    \/ \E p \in ParamNames : Start(p)
    \/ \E p \in ParamNames : Reflect(p)
    \/ \E p \in ParamNames : NrLogExit(p)
    \/ \E p \in ParamNames : CtxLogExit(p)
    \/ \E p \in ParamNames : GenerateDraw(p, CallKeywords \cap GenerateParams, DrawnTriggers)
    \/ \E p \in ParamNames : TestPayload(p)
    \/ \E p \in ParamNames : PfLogExit(p)
    \/ \E p \in ParamNames : CountStore(p)
    \/ \E p \in ParamNames : UrlLogExit(p)
    \/ \E p \in ParamNames : NoneLogExit(p)
    \/ \E p \in ParamNames : Collect(p)
    \/ ErrLogExit
    \/ ProgressEnd
    \/ SummaryExit

SpecDraw == InitDraw /\ [][NextDraw]_vars

(***************************************************************************)
(* SpecCalls: the functions whose result depends on their arguments alone, *)
(* each called once on arguments drawn from a bounded set.                 *)
(***************************************************************************)
runVars == <<cfg, gemini_enabled, pc, frame, ret, queue, print_lock, findings_count,
             findings, main, sent, refl, fault, params, req>>

\* The result of a call that has not returned yet.
Pending == [kind |-> "pending"]

\* Every payload the catalog can hand out: each template of each context
\* with each trigger.
CatalogPayloads ==
    UNION { {traditional_payloads(c, JS_TRIGGERS[t])[k] :
                k \in 1..Len(traditional_payloads(c, JS_TRIGGERS[t]))} :
            c \in InjectionContext, t \in 1..Len(JS_TRIGGERS) }

\* The tokens of _test_payload's list that open a call.
CallTokens == {"alert(", ALERT_BT, "confirm(", "prompt(", "print("}

\* What a filter that removes the calls leaves of a value.
StripCalls(v) == LET Kept(c) == c \notin CallTokens IN SelectSeq(v, Kept)

\* What a target that writes alert( and onclick= in capitals makes of a value.
Capitals(v) ==
    [k \in 1..Len(v) |-> CASE v[k] = "alert(" -> "ALERT("
                           [] v[k] = "onclick=" -> "ONCLICK="
                           [] OTHER -> v[k]]

\* The responses _test_payload is called on for payload v: an error page,
\* and pages that hold v as it is, with its double quotes encoded, without
\* its calls, in capitals, not at all, or encoded beside a handler of the
\* page's own.
OracleResponses(v) ==
    LET url == RequestUrl("GET", [base_params EXCEPT ![ParamList[1]] = v]) IN
    {Response(FALSE, PageText(v), "text/html", url)}
    \cup {Response(TRUE, t, "text/html", url) :
             t \in {PageText(v), PageText(QuotEncode(v)), PageText(StripCalls(v)),
                    PageText(Capitals(v)), PageStatic,
                    <<"<", "a", " ", "ONCLICK=", "a", ">">> \o QuotEncode(v)}}

\* The bodies detect_all is called on: the value v in each of the places a
\* page can hold one, v being the probe, the probe of another request, or
\* nothing.
DetectBodies ==
    {PageStatic}
    \cup UNION { { PageText(v), PageAttrName(v), PageBareAttr(v),
                   <<"{", DQ, "a", DQ, ":", DQ>> \o v \o <<DQ, "}">>,
                   <<"<", "script", ">", "a", "=", SQ>> \o v \o <<SQ, "<", "/", "script", ">">>,
                   <<"<", "style", ">">> \o v \o <<"<", "/", "style", ">">>,
                   <<"<", "!--">> \o v \o <<"--", ">">>,
                   <<"<", "a", " ", "href", "=", DQ>> \o v \o <<DQ, ">">>,
                   <<"<", "a", " ", "a", "=">> \o v \o <<">">>,
                   <<"<", "!--", "<", "a", " ", "a", "=", DQ>> \o v
                       \o <<DQ, ">", "--", ">">>,
                   <<"{", DQ, "a", DQ, ":", DQ>> \o v \o <<DQ, "]">>,
                   <<" ", "[", DQ>> \o v \o <<DQ, "]", NL>>,
                   <<"[", DQ>> \o v \o <<DQ, "}">> } :
                 v \in {<<PROBE>>, <<"Q">>, <<>>} }

\* The lines an answer of the AI can hold, and the answers a call is made
\* with: an exception, no text, a text of which the filter keeps nothing,
\* one line, a repeated line, more than five lines.
AiLine(n) == <<"<svg ", "onload=", "alert(", n, ")", ">">>

AiReplies ==
    {AiRaises, AiEmpty, AiText(<<>>), AiText(<<AiLine("1")>>),
     AiText(<<AiLine("1"), AiLine("2"), AiLine("1")>>),
     AiText(<<AiLine("1"), AiLine("2"), AiLine("3"), AiLine("4"), AiLine("5"),
              AiLine("6")>>)}

InitCalls ==
    /\ InitRun
    /\ cfg.threads = 1
    /\ \/ \E v \in CatalogPayloads : \E r \in OracleResponses(v) :
             call = [fn |-> "_test_payload", payload |-> v, response |-> r,
                     result |-> Pending]
       \/ \E html \in DetectBodies :
             \E ct \in {"text/html", "application/json", "APPLICATION/JSON"} :
                \E ok \in BOOLEAN :
                   call = [fn |-> "detect_all", html |-> html, probe |-> _generate_probe,
                           content_type |-> ct, parser_ok |-> ok, result |-> Pending,
                           found |-> [d \in Detectors |-> {}]]
       \/ \E p \in ParamNames : \E ok \in BOOLEAN :
             \E outcome \in ProbeOutcomes("GET", p,
                                         TestParams(base_params, p,
                                                    _generate_probe).test_params) :
                call = [fn |-> "_test_reflection", param |-> p, outcome |-> outcome,
                        parser_ok |-> ok, result |-> Pending]
       \/ \E html \in DetectBodies :
             \E ct \in {"text/html", "application/json", "APPLICATION/JSON"} :
                call = [fn |-> "_detect_json", html |-> html, probe |-> _generate_probe,
                        content_type |-> ct, result |-> Pending]
       \/ \E c \in InjectionContext : \E enabled \in BOOLEAN : \E reply \in AiReplies :
             call = [fn |-> "generate_ai_payloads", param_name |-> <<ParamList[1]>>,
                     context |-> c, html_snippet |-> PageText(_generate_probe),
                     enabled |-> enabled, reply |-> reply, result |-> Pending,
                     asked |-> 0]
       \/ \E c \in InjectionContext : \E k \in 1..DrawnTriggers :
             \E enabled \in BOOLEAN : \E reply \in AiReplies :
                call = [fn |-> "generate", context |-> c, trigger |-> JS_TRIGGERS[k],
                        html_snippet |-> PageText(_generate_probe),
                        enabled |-> enabled, reply |-> reply, result |-> Pending,
                        asked |-> 0]

\* _test_payload(param, payload, base_params) on the response its request got.
CallTestPayload ==
    /\ call.fn = "_test_payload"
    /\ call.result = Pending
    /\ call' = [call EXCEPT !.result = _test_payload(call.payload, call.response)]
    /\ UNCHANGED runVars

\* ContextAnalyzer(html, probe, content_type).detect_all()
CallDetectAll ==
    /\ call.fn = "detect_all"
    /\ call.result = Pending
    /\ \E contexts \in detect_all(call.html, call.probe, call.content_type, call.parser_ok) :
          call' = [call EXCEPT
                     !.result = [kind |-> "list", list |-> contexts],
                     !.found = Detected(call.html, call.probe[1],
                                        Lower(call.content_type), call.parser_ok)]
    /\ UNCHANGED runVars

\* PayloadGenerator.generate_ai_payloads(param_name, context, html_snippet)
CallGenerateAi ==
    /\ call.fn = "generate_ai_payloads"
    /\ call.result = Pending
    /\ call' = [call EXCEPT
                  !.result = generate_ai_payloads(Arg("str", call.param_name),
                                                  Arg("InjectionContext", call.context),
                                                  Arg("str", call.html_snippet),
                                                  call.enabled, call.reply),
                  !.asked = AiCalls(Arg("InjectionContext", call.context), call.enabled)]
    /\ UNCHANGED runVars

\* PayloadGenerator.generate(context, html_snippet)
CallGenerate ==
    /\ call.fn = "generate"
    /\ call.result = Pending
    /\ call' = [call EXCEPT
                  !.result = generate(call.context, call.html_snippet, call.trigger,
                                      call.enabled, call.reply),
                  !.asked = AiCalls(Arg("str", call.html_snippet), call.enabled)]
    /\ UNCHANGED runVars

\* ContextAnalyzer(html, probe, content_type)._detect_json()
CallDetectJson ==
    /\ call.fn = "_detect_json"
    /\ call.result = Pending
    /\ call' = [call EXCEPT
                  !.result = [kind |-> "set",
                              set |-> _detect_json(call.html, call.probe[1],
                                                   Lower(call.content_type))]]
    /\ UNCHANGED runVars

\* _test_reflection(param, base_params), for each thing its request can end in.
CallTestReflection ==
    /\ call.fn = "_test_reflection"
    /\ call.result = Pending
    /\ \E reflection_result \in
              _test_reflection(_generate_probe, _send_request(call.outcome),
                               call.parser_ok) :
          call' = [call EXCEPT !.result = reflection_result]
    /\ UNCHANGED runVars

NextCalls ==
    \/ CallTestPayload
    \/ CallTestReflection
    \/ CallDetectJson
    \/ CallDetectAll
    \/ CallGenerateAi
    \/ CallGenerate

SpecCalls == InitCalls /\ [][NextCalls]_vars

(***************************************************************************)
(* Properties.                                                             *)
(***************************************************************************)
\* The payload requests task p has sent for context c, in the order sent.
SentFor(p, c) ==
    LET ForContext(e) == e.context = c IN SelectSeq(sent[p], ForContext)

\* The findings the reporter holds for parameter p and context c.
FindingsOf(p, c) ==
    {i \in 1..Len(findings) : findings[i].param = p /\ findings[i].context = c}

\* The length of the catalog's list for context c (the same for every trigger).
ListLen(c) == Len(generate(c, <<>>, JS_TRIGGERS[1], gemini_enabled, AiReply).list)

\* s holds the leading entries, in order, of a list the catalog returns for c.
IsListPrefix(s, c) ==
    \E k \in 1..NumTriggers :
        LET list == generate(c, <<>>, JS_TRIGGERS[k], gemini_enabled, AiReply).list IN
        /\ Len(s) <= Len(list)
        /\ \A n \in 1..Len(s) : s[n].payload = list[n]

\* The positions at which a thread is inside a write to the output (a print
\* of _log, of Colors.print_finding or of ProgressBar.update) or between the
\* load and the store of findings_count += 1.
Writing(t) ==
    \/ pc[t] \in {LogPositions[w] : w \in DOMAIN LogPositions}
    \/ pc[t] \in {"progress", "store"}

\* C1: within one run, for every parameter and every injection context, at
\* most one Finding with that parameter and that context is handed to the
\* reporter, whatever the interleaving of the tasks and whatever the server
\* answers.
C1_OneFindingPerParamContext ==
    \A i, j \in 1..Len(findings) :
        (findings[i].param = findings[j].param
            /\ findings[i].context = findings[j].context) => i = j

\* The run is over; one parameter has findings in two contexts, another has
\* one too.
C1_Witness ==
    /\ pc[MAIN] = "done"
    /\ \E i, j \in 1..Len(findings) :
          findings[i].param = findings[j].param
              /\ findings[i].context # findings[j].context
    /\ \E i, j \in 1..Len(findings) : findings[i].param # findings[j].param

\* C2: for a parameter whose probe is reflected with a non-empty context
\* set, the scan of the parameter gets the payload list of each detected
\* context from generate and tests it, and where a tested payload passed the
\* oracle the scan ends with a Finding for that parameter and context and a
\* found-count of at least 1.  (A scan that an exception other than a
\* RequestException ended is left aside.)
C2_ReflectedParamIsTested ==
    \A p \in ParamNames :
        (refl[p].state = "reflected" /\ pc[p] \in {"done", "raised"} /\ fault[p] # "other")
        => /\ pc[p] = "done"
           /\ \A c \in refl[p].contexts :
                 /\ SentFor(p, c) # <<>>
                 /\ (\E n \in 1..Len(SentFor(p, c)) : SentFor(p, c)[n].hit)
                        => (ret[p] >= 1 /\ FindingsOf(p, c) # {})

\* C3: once a payload of a context's list has passed the oracle, no later
\* payload request of the same task is for that context.
C3_StopAtFirstHit ==
    \A p \in ParamNames : \A n, m \in 1..Len(sent[p]) :
        (n < m /\ sent[p][n].hit) => sent[p][m].context # sent[p][n].context

\* A task has returned after a hit that came before the end of the
\* context's list, and it sent requests for another context afterwards.
C3_Witness ==
    \E p \in ParamNames : \E n \in 1..Len(sent[p]) :
        /\ pc[p] = "done"
        /\ sent[p][n].hit
        /\ n < Len(sent[p])
        /\ Len(SentFor(p, sent[p][n].context)) < ListLen(sent[p][n].context)

\* C4: the payload requests for a context are the leading entries of the
\* catalog's list, in the list's order; the payload of a Finding is the last
\* one sent for its context, it passed the oracle, and every payload sent
\* before it for that context (every earlier entry of the list) was rejected.
C4_FirstPassingPayloadInListOrder ==
    /\ \A p \in ParamNames : \A c \in InjectionContext : IsListPrefix(SentFor(p, c), c)
    /\ \A i \in 1..Len(findings) :
          LET s == SentFor(findings[i].param, findings[i].context) IN
          /\ s # <<>>
          /\ s[Len(s)].hit
          /\ s[Len(s)].payload = findings[i].payload
          /\ \A n \in 1..(Len(s) - 1) : ~s[n].hit

\* A Finding whose payload is the third of its list: two were rejected first.
C4_Witness ==
    \E i \in 1..Len(findings) :
        Len(SentFor(findings[i].param, findings[i].context)) = 3

\* C5: a Finding for a parameter exists only if, in the same task, the
\* reflection request returned a response that contained the probe and in
\* which the detectors found a non-empty context set; the Finding's context
\* is one of that set.
C5_FindingNeedsReflection ==
    \A i \in 1..Len(findings) :
        LET r == refl[findings[i].param] IN
        /\ r.state \in {"reflected", "http_error"}
        /\ findings[i].context \in r.contexts

\* A Finding exists for a parameter reflected in two contexts.
C5_Witness ==
    \E i \in 1..Len(findings) :
        /\ refl[findings[i].param].state = "reflected"
        /\ Cardinality(refl[findings[i].param].contexts) = 2

\* C6: when the reflection request yields no response, or a body without the
\* probe, or a body in which no context is detected, the task only logs and
\* returns 0: it sends no payload request and is never at a position that
\* writes the found-count or hands a Finding to the reporter, so none is
\* recorded for the parameter.
C6_NoReflectionNoScan ==
    \A p \in ParamNames :
        refl[p].state \in {"no_response", "no_probe", "no_context"}
        => /\ pc[p] \in {"nr_wait", "nr_log", "done"}
           /\ pc[p] = "done" => ret[p] = 0
           /\ sent[p] = <<>>
           /\ \A i \in 1..Len(findings) : findings[i].param # p

\* A task returned 0 because no context was detected in the page that
\* echoed its probe, while the reporter holds a Finding of its sibling.
C6_Witness ==
    /\ \E p \in ParamNames : refl[p].state = "no_context" /\ pc[p] = "done" /\ ret[p] = 0
    /\ findings # <<>>

C8_SharedWritesUnderLock ==
    /\ \A t \in Threads : Writing(t) => print_lock = t
    /\ \A t, u \in Threads : (Writing(t) /\ Writing(u)) => t = u

\* C9: an exception in one task does not leave run(): run() ends only after
\* every task has ended, counts every task as completed, and the findings of
\* the tasks that returned are all in the reporter.
C9_TaskExceptionIsolated ==
    /\ pc[MAIN] # "aborted"
    /\ pc[MAIN] = "done"
        => /\ \A p \in ParamNames : pc[p] \in {"done", "raised"}
           /\ main.completed = Len(ParamList)
           /\ \A p \in ParamNames :
                 pc[p] = "done"
                 => Cardinality({i \in 1..Len(findings) : findings[i].param = p}) = ret[p]

\* run() has ended; one task raised, a sibling returned with a Finding.
C9_Witness ==
    /\ pc[MAIN] = "done"
    /\ \E p, q \in ParamNames :
          /\ pc[p] = "raised"
          /\ pc[q] = "done" /\ ret[q] >= 1
          /\ \E i \in 1..Len(findings) : findings[i].param = q

\* C10: after a timeout or a transport error on a payload request the task
\* has not raised, that payload counts as no success, and the task is
\* logging the failure or has gone on: to the next payload of the list, or,
\* the list being at its end, to the next context or to the end of the scan.
C10_TransportFailureGoesOn ==
    \A p \in ParamNames :
        fault[p] = "transport"
        => LET e == sent[p][Len(sent[p])]
               n == Len(SentFor(p, e.context))
               f == frame[p]
           IN  /\ pc[p] \in {"pf_wait", "pf_log", "test", "gen", "none_wait", "none_log"}
               /\ ~e.hit
               /\ pc[p] = "test"
                    => \/ f.contexts[f.ci] = e.context /\ f.pi = n + 1
                       \/ /\ n = ListLen(e.context) /\ f.pi = 1
                          /\ f.ci > 1 /\ f.contexts[f.ci - 1] = e.context
               /\ pc[p] = "gen"
                    => (n = ListLen(e.context) /\ f.ci > 1
                        /\ f.contexts[f.ci - 1] = e.context)
               /\ pc[p] \in {"none_wait", "none_log"}
                    => (n = ListLen(e.context)
                        /\ \A c \in refl[p].contexts : SentFor(p, c) # <<>>)

\* After a failed payload request a task is about to send the next payload
\* of the same list.
C10_Witness ==
    \E p \in ParamNames :
        fault[p] = "transport" /\ pc[p] = "test" /\ frame[p].pi >= 2

\* C11: after an interrupt during run(), no task that had not started when
\* it came is started, and the program does not end without the report
\* having been written.
C11_InterruptStopsAndSurfaces ==
    /\ \A p \in main.pending : pc[p] = "queued"
    /\ pc[MAIN] # "interrupted"

\* C12: the last request of every task that has sent one carries the probe
\* (before any payload request) or the payload last sent as the value of
\* the task's parameter and the baseline value for every other parameter,
\* and the mapping passed to run() is as it was passed.
C12_RequestsKeepBaseline ==
    /\ params = base_params
    /\ \A p \in ParamNames :
          refl[p].state # "unset"
          => /\ req[p][p] = IF sent[p] = <<>> THEN _generate_probe
                            ELSE sent[p][Len(sent[p])].payload
             /\ \A q \in ParamNames \ {p} : req[p][q] = base_params[q]

\* Both tasks have sent requests: one its probe only, the other a payload
\* after the first task's last request.
C12_Witness ==
    \E p, q \in ParamNames :
        /\ p # q
        /\ refl[p].state # "unset" /\ sent[p] = <<>> /\ pc[p] = "done"
        /\ sent[q] # <<>> /\ req[q][q] = sent[q][Len(sent[q])].payload

\* The body holds, in any case, one of the tokens.
HoldsAny(body, tokens) == \E k \in 1..Len(body) : SymLower(body[k]) \in tokens

\* The event-handler tokens _test_payload searches for, and every
\* on<event>= token a page of the model can hold.
HandlerTokens == {"onerror=", "onload=", "onfocus=", "onclick="}
OnEventTokens == HandlerTokens \cup {"ontoggle=", "onstart="}

\* The oracle's condition on the call at hand, for a given marker vocabulary.
OracleCondition(markers) ==
    /\ HoldsAny(call.response.text, markers)
    /\ \/ Contains(call.response.text, call.payload)
       \/ ~Contains(call.response.text, QuotEncode(call.payload))

\* _test_payload has returned from a call on a response it examines.
OracleReturned ==
    call.fn = "_test_payload" /\ call.result # Pending /\ call.response.ok

\* C13 as stated: the oracle reports success exactly when the body holds,
\* in any case, a call token or any on<event>= handler token, and the
\* payload occurs verbatim or its &quot;-encoded form does not occur.
C13_OracleAnyHandlerToken ==
    OracleReturned
    => (call.result # None <=> OracleCondition(CallTokens \cup OnEventTokens))

\* C13 as amended: the same with the handler tokens being onerror=, onload=,
\* onfocus= and onclick= only; a body that holds the &quot;-encoded payload
\* and not the payload itself is reported as not exploited, and success is
\* reported as the URL of the response.
C13_OracleExactCondition ==
    /\ OracleReturned
       => /\ call.result # None <=> OracleCondition(CallTokens \cup HandlerTokens)
          /\ call.result # None => call.result = [kind |-> "url", url |-> call.response.url]
          /\ ( /\ Contains(call.response.text, QuotEncode(call.payload))
               /\ ~Contains(call.response.text, call.payload) )
             => call.result = None
    /\ (call.fn = "_test_payload" /\ call.result # Pending /\ ~call.response.ok)
       => call.result = None

\* The oracle has turned down a body that holds a marker and the payload
\* in its &quot;-encoded form only.
C13_Witness ==
    /\ OracleReturned
    /\ call.result = None
    /\ HoldsAny(call.response.text, CallTokens \cup HandlerTokens)
    /\ Contains(call.response.text, QuotEncode(call.payload))
    /\ ~Contains(call.response.text, call.payload)

\* The payload embeds the k-th trigger of JS_TRIGGERS.
Embeds(payload, k) == Contains(payload, JS_TRIGGERS[k])

C15_NoProbeNoContext ==
    (call.fn = "detect_all" /\ call.result # Pending
        /\ ~Contains(call.html, call.probe))
    => call.result.list = <<>>

\* detect_all has returned the empty list for a JSON response without the probe.
C15_Witness ==
    /\ call.fn = "detect_all" /\ call.result # Pending
    /\ ~Contains(call.html, call.probe)
    /\ HasJson(Lower(call.content_type))
    /\ call.html # PageStatic
    /\ call.result.list = <<>>

\* generate, or generate_ai_payloads, has returned.
Returned(fn) == call.fn = fn /\ call.result # Pending

\* C16: with the AI enabled and answering with payload strings, generate
\* returns the fixed templates of the context, unchanged and in order,
\* followed by the AI's strings (the first five distinct ones).
C16_TemplatesThenAiStrings ==
    (Returned("generate") /\ call.enabled /\ call.reply.kind = "text"
        /\ call.reply.lines # <<>>)
    => call.result = List(traditional_payloads(call.context, call.trigger)
                          \o Take(Unique(call.reply.lines), 5))

\* The AI fails in the call at hand: it is not initialised, it raises, it
\* answers with no text, or with a text that holds no payload line.
AiFails ==
    \/ ~call.enabled
    \/ call.reply.kind \in {"raise", "empty"}
    \/ call.reply.kind = "text" /\ call.reply.lines = <<>>

HitsOf(p) == LET IsHit(e) == e.hit IN SelectSeq(sent[p], IsHit)
FoundFor(p) == LET IsFor(f) == f.param = p IN SelectSeq(findings, IsFor)

\* The positions of a task between a hit and its add_finding call (lines
\* 269-278); no request is sent from any of them.
Reporting(p) == pc[p] \in {"store", "url_wait", "url_log"}

\* C18: every hit is handed to the reporter by one add_finding call of the
\* task, before the task sends another request: outside the lines between
\* the hit and the call, the reporter holds exactly one finding per hit of
\* the task, in the order of the hits; between them, only the last is missing.
C18_HitReportedAtOnce ==
    \A p \in ParamNames :
        /\ Len(FoundFor(p)) = Len(HitsOf(p)) - (IF Reporting(p) THEN 1 ELSE 0)
        /\ \A i \in 1..Len(FoundFor(p)) :
              /\ i <= Len(HitsOf(p))
              /\ FoundFor(p)[i].payload = HitsOf(p)[i].payload
              /\ FoundFor(p)[i].context = HitsOf(p)[i].context

\* A task is about to send a further request after a hit, and the reporter
\* already holds the finding.
C18_Witness ==
    \E p \in ParamNames :
        /\ pc[p] = "test"
        /\ Len(HitsOf(p)) = 1
        /\ Len(FoundFor(p)) = 1
        /\ FoundFor(p)[1].payload = HitsOf(p)[1].payload

\* No payload is sent twice by a task for one context.
PayloadsSentOnce ==
    \A p \in ParamNames :
        \A i, j \in 1..Len(sent[p]) :
            (i < j /\ sent[p][i].context = sent[p][j].context)
            => sent[p][i].payload # sent[p][j].payload

\* A task that is past the reflection request has sent it, and a task that
\* has sent it is not at the request again.
ReflectionSentOnce ==
    \A p \in ParamNames :
        /\ pc[p] \in {"unsubmitted", "queued", "intro_wait", "intro_log"}
           <=> refl[p].state = "unset"
        /\ Len(sent[p]) > 0 => refl[p].state = "reflected"

\* C19: no request is retried: every task sends one reflection request, and
\* each payload at most once per context, whether the request got a
\* response, timed out or failed.
C19_NoRequestRetried ==
    /\ PayloadsSentOnce
    /\ ReflectionSentOnce

\* A payload request has failed in the transport and the task is at the
\* next payload, having sent the failed one once.
C19_Witness ==
    \E p \in ParamNames :
        /\ pc[p] = "test"
        /\ fault[p] = "transport"
        /\ Len(sent[p]) >= 1
        /\ frame[p].payloads[frame[p].pi] # sent[p][Len(sent[p])].payload
        /\ refl[p].state = "reflected"

\* The parameters run() has submitted a task for: the leading entries of
\* param_names.
Submitted == {ParamList[i] : i \in 1..(main.next - 1)}

\* C20: run() submits one scan task for each parameter name and no more:
\* the tasks that exist are those of the names submitted so far, all names
\* once the submitting is over, and each waits in the queue once; and never
\* more than `threads` tasks are running.
C20_OneTaskPerParamWithinPool ==
    /\ Cardinality(Running) <= cfg.threads
    /\ {p \in ParamNames : pc[p] # "unsubmitted"} = Submitted
    /\ pc[MAIN] \notin {"run", "submit"} => Submitted = ParamNames
    /\ \A i, j \in 1..Len(queue) : queue[i] = queue[j] => i = j
    /\ \A p \in ParamNames : pc[p] = "queued" <=> \E i \in 1..Len(queue) : queue[i] = p

\* The pool is full: as many tasks run as there are workers, and a
\* submitted task waits.
C20_Witness ==
    /\ Cardinality(Running) = cfg.threads
    /\ \E p \in ParamNames : pc[p] = "queued"
    /\ Submitted = ParamNames

\* The orders in which the detectors can be run.
RECURSIVE Orders(_)
Orders(S) ==
    IF S = {} THEN {<<>>}
    ELSE UNION { {Append(o, d) : o \in Orders(S \ {d})} : d \in S }

DetectorOrders == Orders(Detectors)

\* detect_all has returned for a body that holds the probe.
Classified ==
    call.fn = "detect_all" /\ call.result # Pending /\ Contains(call.html, call.probe)

\* The contexts of the list detect_all returned.
ResultSet == {call.result.list[i] : i \in 1..Len(call.result.list)}

\* C21: for a fixed body, probe and content type, the detectors leave the
\* same set of contexts whatever the order they are run in, and it is the
\* set detect_all returns.
C21_DetectorOrderIrrelevant ==
    Classified
    => \A order \in DetectorOrders : RunDetectors(order, call.found) = ResultSet

\* detect_all has returned a set to which two detectors contributed.
C21_Witness ==
    /\ Classified
    /\ \E d, e \in Detectors :
          /\ d # e
          /\ call.found[d] # {} /\ call.found[e] # {}
          /\ call.found[d] # call.found[e]
    /\ \A order \in DetectorOrders : RunDetectors(order, call.found) = ResultSet

\* C22: with the probe present, detect_all returns the union of what each
\* detector contributes on its own: no context is dropped because another
\* detector fired.
C22_ResultIsUnionOfDetectors ==
    Classified => ResultSet = UNION {call.found[d] : d \in Detectors}

\* The probe stood in a double-quoted attribute inside an HTML comment, and
\* detect_all has returned both the attribute and the comment context.
C22_Witness ==
    /\ Classified
    /\ "HTML_COMMENT" \in call.found["_detect_html_comment"]
    /\ "ATTR_VALUE_DOUBLE_QUOTE" \in call.found["_detect_attribute_contexts"]
    /\ {"HTML_COMMENT", "ATTR_VALUE_DOUBLE_QUOTE"} \subseteq ResultSet

\* A JSON object with the value v as a string value: {"a":"v"}.
JsonObject(v) == <<"{", DQ, "a", DQ, ":", DQ>> \o v \o <<DQ, "}">>

\* C23: for a JSON object that holds the probe as a string value, served
\* as application/json, detect_all returns JSON_VALUE and nothing else.
C23_JsonBodyOnlyJsonValue ==
    (Classified /\ call.html = JsonObject(call.probe)
        /\ Lower(call.content_type) = "application/json")
    => ResultSet = {"JSON_VALUE"}

\* The body, trimmed, starts and ends with a matching pair of brackets.
MatchingBrackets(html) ==
    LET stripped == strip(html) IN
    /\ Len(stripped) > 0
    /\ \/ stripped[1] = "{" /\ stripped[Len(stripped)] = "}"
       \/ stripped[1] = "[" /\ stripped[Len(stripped)] = "]"

\* C24: the JSON detector reports JSON_VALUE exactly when the content type
\* contains "json", or the trimmed body holds the probe and starts and ends
\* with a matching pair of brackets; { ... ] and [ ... } do not count.
C24_JsonNeedsMatchingBrackets ==
    (call.fn = "_detect_json" /\ call.result # Pending)
    => ("JSON_VALUE" \in call.result.set
        <=> \/ HasJson(Lower(call.content_type))
            \/ Contains(strip(call.html), call.probe) /\ MatchingBrackets(call.html))

\* C25: when the tree parser raises in the text-node detector, detect_all
\* still returns: HTML_TEXT is decided by the regular expression (the probe
\* between > and < with no < in between) and every other detector's
\* contexts are in the result.
C25_ParserFailureFallsBack ==
    (Classified /\ ~call.parser_ok)
    => /\ call.result.kind = "list"
       /\ "HTML_TEXT" \in ResultSet <=> TextPattern(call.html, call.probe[1])
       /\ \A d \in Detectors \ {"_detect_text_node"} : call.found[d] \subseteq ResultSet

\* The parser has raised, the regular expression has found the probe in
\* text, and another detector's context is in the result as well.
C25_Witness ==
    /\ Classified /\ ~call.parser_ok
    /\ TextPattern(call.html, call.probe[1])
    /\ "HTML_TEXT" \in ResultSet
    /\ ResultSet # {"HTML_TEXT"}

\* The increments of the found-count that task p has completed: one for
\* each of its hits, the last one outstanding while p is at the store.
Counted(p) == Len(HitsOf(p)) - (IF pc[p] = "store" THEN 1 ELSE 0)

RECURSIVE CountedBy(_)
CountedBy(n) == IF n = 0 THEN 0 ELSE CountedBy(n - 1) + Counted(ParamList[n])

\* A scan_parameter call that has returned tested the list of every
\* detected context, and found between 0 and |contexts| payloads: one for
\* each context with a hit, each of them in the reporter.
EveryContextTested ==
    \A p \in ParamNames :
        (pc[p] = "done" /\ refl[p].state = "reflected")
        => /\ \A c \in refl[p].contexts : SentFor(p, c) # <<>>
           /\ ret[p] = Cardinality({c \in refl[p].contexts : FindingsOf(p, c) # {}})
           /\ ret[p] = Len(HitsOf(p))
           /\ ret[p] \in 0..Cardinality(refl[p].contexts)

C27_ErrorStatusIsNoResponse ==
    /\ (call.fn = "_test_reflection" /\ call.result # Pending
           /\ call.outcome.kind = "response" /\ ~call.outcome.ok)
       => /\ call.result = None
          /\ \A r \in _test_reflection(_generate_probe, _send_request(Timeout),
                                       call.parser_ok) : r = call.result
    /\ (call.fn = "_test_payload" /\ call.result # Pending /\ call.response.kind = "response"
           /\ ~call.response.ok)
       => call.result = _test_payload(call.payload, _send_request(Timeout))

\* _test_reflection has returned None for an error response whose body
\* holds the probe.
C27_Witness ==
    /\ call.fn = "_test_reflection" /\ call.result # Pending
    /\ call.outcome.kind = "response" /\ ~call.outcome.ok
    /\ Contains(call.outcome.text, _generate_probe)
    /\ call.result = None

\* The payload holds no double quote.
NoQuote(payload) == \A k \in 1..Len(payload) : payload[k] # DQ

C29_ScriptStringImpliesBlock ==
    (call.fn = "detect_all" /\ call.result # Pending)
    => ("SCRIPT_STRING" \in ResultSet => "SCRIPT_BLOCK" \in ResultSet)

\* detect_all has returned SCRIPT_STRING, and SCRIPT_BLOCK with it.
C29_Witness ==
    /\ Classified
    /\ {"SCRIPT_STRING", "SCRIPT_BLOCK"} \subseteq ResultSet

\* C30: run() returns, and when it has returned every parameter has been
\* counted as completed once, those whose task raised included.
C30_RunTerminatesAllCounted ==
    /\ <>(pc[MAIN] = "done")
    /\ [](pc[MAIN] = "done"
            => /\ main.completed = Len(ParamList)
               /\ main.collected = ParamNames
               /\ \A p \in ParamNames : pc[p] \in {"done", "raised"})

\* run() has returned with every parameter counted, one of the tasks
\* having raised.
C30_Witness ==
    /\ pc[MAIN] = "done"
    /\ main.completed = Len(ParamList)
    /\ \E p \in ParamNames : pc[p] = "raised"

====
